---- MODULE Spec2Model ----
(***************************************************************************)
(* getrelease: asset resolution and installation lifecycle of              *)
(* src/getrelease.py.                                                       *)
(*                                                                         *)
(* A file name or URL is a sequence of tokens (the pieces between its      *)
(* separators), a regular expression is a token looked for in that         *)
(* sequence.  The file system is four maps: the metadata directory, the    *)
(* bin directory, the download cache and the data directory.               *)
(***************************************************************************)
EXTENDS Integers, Sequences, FiniteSets, TLC

VARIABLES
    meta,   \* metadata_dir: record file name -> persisted record, or NoRecord
    bin,    \* bin_dir: entry name -> what is at that path
    cache,  \* cache_dir: file name -> content of the downloaded file, or NoFile
    data,   \* data_dir: entry name -> extracted tree or file, or NoEntry
    last,   \* the command that ran last and how it ended
    ops,    \* the number of commands run so far
    inp,    \* arguments of the function under test (component specifications)
    out     \* its result

vars == <<meta, bin, cache, data, last, ops, inp, out>>

----------------------------------------------------------------------------
(* Bounds *)

\* largest number of candidate assets attached to one release tag
MaxAssets == 3
\* largest number of answers the operator types at the asset_pattern prompt
MaxAsk == 2
\* largest number of rows of an aggregated checksum manifest
MaxRows == 2
\* latest publish time of a release
MaxTime == 2
\* largest number of commands run one after the other
MaxOps == 3

----------------------------------------------------------------------------
(* Names and patterns *)

None == "None"

\* no url: the empty name
NoUrl == <<>>

\* no --symlink-alias
NoAlias == <<>>

\* the component under test has not run yet
NotRun == [done |-> FALSE]

\* the last token of a name: its extension
Ext(name) == name[Len(name)]

\* str.contains(OS_PATTERN): the OS pattern of a linux machine is 'linux';
\* it is searched as a substring, so it is also found inside `linux64`
OS_PATTERN(name) == \E i \in DOMAIN name : name[i] \in {"linux", "linux64"}

\* str.contains(ARCH_PATTERN): the x86_64 family,
\* 'amd64|x64|x86[-_]?64|i686[-_]?64|ia[-_]?64', also found inside `linux64`
ARCH_PATTERN(name) ==
    \E i \in DOMAIN name : name[i] \in {"amd64", "x64", "x86_64", "linux64"}

\* the default asset_pattern / bin_pattern '.*'
AnyPattern == [tok |-> ".*", end |-> FALSE]

\* the text tok is found inside the token t: t itself, or `linux` in `linux64`
Within(tok, t) == t = tok \/ (tok = "linux" /\ t = "linux64")

\* re.search of an operator-supplied pattern: `tok` anywhere, or `tok$`
Matches(pattern, name) ==
    \/ pattern.tok = ".*"
    \/ /\ pattern.end
       /\ Ext(name) = pattern.tok
    \/ /\ ~pattern.end
       /\ \E i \in DOMAIN name : Within(pattern.tok, name[i])

Bool2Int(b) == IF b THEN 1 ELSE 0

SetMax(S) == CHOOSE x \in S : \A y \in S : y <= x

----------------------------------------------------------------------------
(* Asset.identify *)

\* asset_urls.str.endswith(('.deb', '.rpm', '.sha1', '.sha256', '.sha256sum', '.sum'))
filetype_veto(name) ==
    Ext(name) \in {"deb", "rpm", "sha1", "sha256", "sha256sum", "sum"}

\* os + arch: the raw OS/arch match count of a candidate
RawMatch(name) == Bool2Int(OS_PATTERN(name)) + Bool2Int(ARCH_PATTERN(name))

\* the score with the blacklist forgotten
ScoreNoVeto(name, asset_pattern) ==
    RawMatch(name) + 2 * Bool2Int(Matches(asset_pattern, name))

\* match = os + arch - filetype_veto + 2*asset_pattern
Score(name, asset_pattern) ==
    RawMatch(name) - Bool2Int(filetype_veto(name))
        + 2 * Bool2Int(Matches(asset_pattern, name))

\* asset_urls[match == match.max()]
MaxScorers(asset_urls, asset_pattern) ==
    LET mx == SetMax({Score(a, asset_pattern) : a \in asset_urls})
    IN  {a \in asset_urls : Score(a, asset_pattern) = mx}

\* identify that scores again only the candidates that tied
RECURSIVE Asset_identify_tied(_, _, _, _)
Asset_identify_tied(asset_urls, asset_pattern, answers, asked) ==
    LET asset == MaxScorers(asset_urls, asset_pattern)
    IN  IF Cardinality(asset) = 1
        THEN [url |-> CHOOSE a \in asset : TRUE,
              pattern |-> asset_pattern, asked |-> asked]
        ELSE IF answers = <<>>
             THEN [url |-> NoUrl, pattern |-> asset_pattern, asked |-> asked]
             ELSE Asset_identify_tied(asset, Head(answers), Tail(answers),
                                      asked + 1)

\* what identify gives back: the url, the pattern in force when it was chosen
\* and the answers the operator had typed by then; url = NoUrl when the
\* operator stops answering the prompt (input() raises EOFError)
RECURSIVE Asset_identify(_, _, _, _)
Asset_identify(asset_urls, asset_pattern, answers, asked) ==
    LET asset == MaxScorers(asset_urls, asset_pattern)
    IN  IF Cardinality(asset) = 1
        THEN [url |-> CHOOSE a \in asset : TRUE,
              pattern |-> asset_pattern, asked |-> asked]
        ELSE IF answers = <<>>
             THEN [url |-> NoUrl, pattern |-> asset_pattern, asked |-> asked]
             ELSE Asset_identify(asset_urls, Head(answers), Tail(answers),
                                 asked + 1)

----------------------------------------------------------------------------
(* Checksum *)

\* name ends with the tokens of tail
EndsWith(name, tail) ==
    /\ Len(tail) <= Len(name)
    /\ SubSeq(name, Len(name) - Len(tail) + 1, Len(name)) = tail

\* name holds the tokens of part, one after the other
Contains(name, part) ==
    \E i \in 0..(Len(name) - Len(part)) : SubSeq(name, i + 1, i + Len(part)) = part

\* Series.item(): the only element, or a ValueError
Item(S) == IF Cardinality(S) = 1
           THEN [raised |-> FALSE, value |-> CHOOSE x \in S : TRUE]
           ELSE [raised |-> TRUE, value |-> None]

NoChecksum == [raised |-> FALSE, value |-> None]

\* str.contains('checksums.txt$|sha256.txt$|sha256sum.txt$')
IsChecksumsFile(name) ==
    \E t \in {"checksums", "sha256", "sha256sum"} : EndsWith(name, <<t, "txt">>)

\* str.contains('sha256$|sha256sum$|sum$')
IsChecksumFile(name) == Ext(name) \in {"sha256", "sha256sum", "sum"}

\* Checksum.fromFile: the digest of the row of the aggregated manifest whose
\* filename ends with the asset's; remote.manifest is what read_csv downloads
fromFile(asset_urls, asset_filename, remote) ==
    LET checksums_file == {u \in asset_urls : IsChecksumsFile(u)}
        rows == {r \in remote.manifest : EndsWith(r.filename, asset_filename)}
        found == Item({r.checksum : r \in rows})
    IN  IF checksums_file = {} THEN NoChecksum
        ELSE IF Item(checksums_file).raised THEN Item(checksums_file)
        ELSE IF Cardinality(rows) # 1 THEN [raised |-> TRUE, value |-> None]
        ELSE found

\* Checksum.fromFiles: the digest in the per-asset sidecar file whose name
\* holds the asset's; such a file has one row, with digest remote.sidecar
fromFiles(asset_urls, asset_filename, remote) ==
    LET checksum_files == {u \in asset_urls : IsChecksumFile(u)}
        checksum_file_url ==
            Item({u \in checksum_files : Contains(u, asset_filename)})
    IN  IF checksum_files = {} THEN NoChecksum
        ELSE IF checksum_file_url.raised THEN checksum_file_url
        ELSE [raised |-> FALSE, value |-> remote.sidecar]

\* hashlib.sha256(target_file.read()).hexdigest() of a file with this content
download_checksum(content) == content.sha

\* the end of verify: the reference digest against the file's
Compare(checksum_from_file, checksum_from_files, content) ==
    LET reference_checksum ==
            IF checksum_from_file.value # None THEN checksum_from_file.value
            ELSE checksum_from_files.value
    IN  IF checksum_from_file.raised \/ checksum_from_files.raised
        THEN "item_error"
        ELSE IF reference_checksum = None THEN "skipped"
        ELSE IF reference_checksum # download_checksum(content) THEN "mismatch"
        ELSE "verified"

\* verify with the comparison of the two digests left out
VerifyNoCompare(asset_urls, asset_filename, remote, content) ==
    IF asset_urls = {} THEN "skipped"
    ELSE IF fromFile(asset_urls, asset_filename, remote).raised
            \/ fromFiles(asset_urls, asset_filename, remote).raised
         THEN "item_error"
    ELSE "skipped"

\* Checksum.verify: "skipped" (no reference digest), "verified", or a
\* ValueError: "mismatch" (checksums don't match) or "item_error" (raised by
\* item() while the reference digest was looked up)
verify(asset_urls, asset_filename, remote, content) ==
    IF asset_urls = {} THEN "skipped"
    ELSE Compare(fromFile(asset_urls, asset_filename, remote),
                 fromFiles(asset_urls, asset_filename, remote), content)

----------------------------------------------------------------------------
(* The file system *)

\* nothing at a path of bin_dir or data_dir
NoEntry == [kind |-> "none"]
\* a regular file that getrelease did not put there
ForeignFile == [kind |-> "file", x |-> FALSE]
\* a standalone executable moved into data_dir
ExeFile == [kind |-> "file", x |-> TRUE]

\* a path under data_dir: the entry `root` of data_dir itself (name = <<>>),
\* or the file `name` in the directory `dir` below it
RootPath(root) == [root |-> root, dir |-> <<>>, name |-> <<>>]
FilePath(root, f) == [root |-> root, dir |-> f.dir, name |-> f.name]

\* pathlib's path.name: the last segment
PathName(path) == IF path.name = <<>> THEN path.root ELSE path.name

\* str(path): every token of the path
PathTokens(path) == path.root \o path.dir \o path.name

\* path.is_file()
is_file(d, path) ==
    IF path.name = <<>>
    THEN d[path.root].kind = "file"
    ELSE /\ d[path.root].kind = "dir"
         /\ \E f \in d[path.root].files : f.dir = path.dir /\ f.name = path.name

\* Executables.isExecutableFile
isExecutableFile(d, path) ==
    IF path.name = <<>>
    THEN d[path.root].kind = "file" /\ d[path.root].x
    ELSE /\ d[path.root].kind = "dir"
         /\ \E f \in d[path.root].files :
                f.dir = path.dir /\ f.name = path.name /\ f.x

\* rmRecursive on an entry of bin_dir, cache_dir or data_dir: a link, a file
\* or a whole directory goes, an absent path is left alone
rmRecursive(dir, name) ==
    IF name \in DOMAIN dir THEN [dir EXCEPT ![name] = NoEntry] ELSE dir

----------------------------------------------------------------------------
(* Executables *)

\* link with the test of the target left out
LinkAlways(b, d, target, symlink) ==
    [b EXCEPT ![symlink] = [kind |-> "link", target |-> target]]

\* Executables.link: bin_dir after the call
link(b, d, target, symlink) ==
    IF is_file(d, target)
    THEN [b EXCEPT ![symlink] = [kind |-> "link", target |-> target]]
    ELSE b

\* pathlib's stem of a directory name: the name without its last suffix
SegmentStem(segment) == IF segment = "bin.old" THEN "bin" ELSE segment

\* Executables.identify: the executables of the extracted tree
Executables_identify(d, extracted_path, bin_pattern) ==
    LET root == extracted_path
        executables ==
            IF d[root].kind # "dir" THEN {}
            ELSE {FilePath(root, f) : f \in
                    {g \in d[root].files :
                        g.x /\ Matches(bin_pattern, PathTokens(FilePath(root, g)))}}
        bin_dir_executables ==
            {f \in executables :
                f.dir # <<>> /\ SegmentStem(f.dir[Len(f.dir)]) = "bin"}
        base_dir_executables == {f \in executables : f.dir = <<>>}
    IN  IF isExecutableFile(d, RootPath(root)) THEN {RootPath(root)}
        ELSE IF Cardinality(executables) = 1 THEN executables
        ELSE IF bin_dir_executables # {} THEN bin_dir_executables
        ELSE base_dir_executables

\* the names with the alias applied however many executables there are
SymlinkNamesAliasAll(extracted_bin, repo_id, symlink_alias) ==
    [e \in extracted_bin |->
        IF symlink_alias # NoAlias THEN symlink_alias ELSE PathName(e)]

\* the names Executables.symlink links the executables under
SymlinkNames(extracted_bin, repo_id, symlink_alias) ==
    IF Cardinality(extracted_bin) = 1
    THEN LET extracted_bin0 == CHOOSE e \in extracted_bin : TRUE
             contains_system_info ==
                 OS_PATTERN(PathName(extracted_bin0))
                     \/ ARCH_PATTERN(PathName(extracted_bin0))
         IN  [e \in extracted_bin |->
                IF symlink_alias # NoAlias THEN symlink_alias
                ELSE IF contains_system_info THEN repo_id.name
                ELSE PathName(extracted_bin0)]
    ELSE [e \in extracted_bin |-> PathName(e)]

\* bin_dir after linking every executable of todo
RECURSIVE LinkAll(_, _, _, _)
LinkAll(b, d, names, todo) ==
    IF todo = {} THEN b
    ELSE LET e == CHOOSE x \in todo : TRUE
         IN  LinkAll(link(b, d, e, names[e]), d, names, todo \ {e})

\* Executables.symlink: bin_dir after the call and the list it returns
symlink(b, d, extracted_bin, repo_id, symlink_alias) ==
    LET names == SymlinkNames(extracted_bin, repo_id, symlink_alias)
    IN  [bin |-> LinkAll(b, d, names, extracted_bin),
         symlinks |-> {names[e] : e \in extracted_bin}]

----------------------------------------------------------------------------
(* Asset.download and Asset.extract *)

NoFile == [kind |-> "none"]

\* tokens that follow a dot at the end of a file name
SuffixTokens ==
    {"tgz", "gz", "tar", "txt", "deb", "rpm", "sha1", "sha256", "sha256sum", "sum"}

\* pathlib's file_path.stem: the name without its last suffix
Stem(name) ==
    IF Len(name) > 1 /\ Ext(name) \in SuffixTokens
    THEN SubSeq(name, 1, Len(name) - 1)
    ELSE name

\* a token with its trailing characters among '.', 't', 'a', 'r' stripped
StripTok(tok) ==
    CASE tok = "tar" -> ""
      [] tok = "star" -> "s"
      [] tok = "data" -> "d"
      [] OTHER -> tok

\* str.rstrip('.tar'): strips trailing characters, not the trailing word
RECURSIVE RStripTar(_)
RStripTar(name) ==
    IF name = <<>> THEN <<>>
    ELSE LET front == SubSeq(name, 1, Len(name) - 1)
             tok == StripTok(Ext(name))
         IN  IF tok = "" THEN RStripTar(front) ELSE Append(front, tok)

\* the reuse test with force left out
AlreadyExistsBySize(c, file_name, content, force) ==
    c[file_name].kind # "none" /\ c[file_name].size = content.size

\* `self.file_path.exists() and (local_file_size == remote_file_size) and
\* (not force)`
AlreadyExists(c, file_name, content, force) ==
    c[file_name].kind # "none" /\ c[file_name].size = content.size /\ ~force

\* Asset.download: cache_dir after the call; a file of the remote size that
\* is already there is kept unless force is set
download(c, file_name, content, force) ==
    IF AlreadyExists(c, file_name, content, force)
    THEN c
    ELSE [c EXCEPT ![file_name] = content]

\* Asset.extract: cache_dir and data_dir after the call and the path it
\* returns; raised when the archive cannot be read or the destination is
\* taken by an entry of the other kind
extract(c, d, file_name) ==
    LET content == c[file_name]
        stem == Stem(file_name)
        flat == RStripTar(stem)
        root == IF content.base_dir # <<>> THEN content.base_dir ELSE flat
        rootfile == \E f \in content.files : f.name = <<>>
        old == IF d[root].kind = "dir" THEN d[root].files ELSE {}
        kept == {o \in old : ~\E f \in content.files :
                                f.dir = o.dir /\ f.name = o.name}
        failed == [raised |-> TRUE, cache |-> c, data |-> d, path |-> <<>>]
    IN  IF content.kind = "binary"
        THEN IF d[stem].kind = "dir" THEN failed
             ELSE [raised |-> FALSE,
                   cache |-> [c EXCEPT ![file_name] = NoFile],
                   data |-> [d EXCEPT ![stem] = ExeFile],
                   path |-> stem]
        ELSE IF content.kind = "truncated" THEN failed
        ELSE IF rootfile
             THEN IF d[root].kind = "dir" THEN failed
                  ELSE [raised |-> FALSE, cache |-> c,
                        data |-> [d EXCEPT ![root] = ExeFile], path |-> root]
        ELSE IF d[root].kind = "file" THEN failed
             ELSE [raised |-> FALSE, cache |-> c,
                   data |-> [d EXCEPT ![root] =
                               [kind |-> "dir",
                                files |-> kept \cup content.files]],
                   path |-> root]

----------------------------------------------------------------------------
(* Meta *)

NoRecord == [kind |-> "none"]

\* the record file of a repository: repo_id.replace('/', '_') + '.json'
MetaFile(repo_id) == repo_id.owner \o repo_id.name

\* Meta.write
Meta_write(m, metadata) == [m EXCEPT ![MetaFile(metadata.repo_id)] = metadata]

\* Meta.read: the record, or NoRecord for {}
Meta_read(m, repo_id) == m[MetaFile(repo_id)]

----------------------------------------------------------------------------
(* Release tags *)

LatestTag == <<"latest">>

\* tagInfo when the tag is not found (HTTPError): an empty Series
EmptyTag ==
    [empty |-> TRUE, tag_name |-> <<>>, published |-> 0, assets |-> {},
     remote |-> [manifest |-> {}, sidecar |-> None]]

\* the publish time Upgrade reads when published_at and released_at are absent
Epoch == 0

\* tokens packaging's VERSION_PATTERN finds in a url
VersionTokens == {"1", "2"}

\* parseVersion: the first version found in the string, or the string itself
parseVersion(version) ==
    IF \E i \in DOMAIN version : version[i] \in VersionTokens
    THEN <<version[CHOOSE i \in DOMAIN version :
                /\ version[i] \in VersionTokens
                /\ \A j \in 1..(i - 1) : version[j] \notin VersionTokens]>>
    ELSE version

----------------------------------------------------------------------------
(* install *)

Done(fs, outcome) == [fs |-> fs, outcome |-> outcome]

\* the dict extractAndSymlink returns, with the file system it leaves
Installed(ex, extracted_bin, sl) ==
    [raised |-> FALSE, cache |-> ex.cache, data |-> ex.data, bin |-> sl.bin,
     extracted_path |-> ex.path, extracted_bin |-> extracted_bin,
     symlinks |-> sl.symlinks]

\* Executables(extracted_bin, repo.id).symlink(symlink_alias)
SymlinkStep(fs, a, ex, extracted_bin) ==
    Installed(ex, extracted_bin,
              symlink(fs.bin, ex.data, extracted_bin, a.repo_id,
                      a.symlink_alias))

\* Executables.identify(extracted_path, bin_pattern), unless extract raised
IdentifyStep(fs, a, ex) ==
    IF ex.raised
    THEN [raised |-> TRUE, cache |-> fs.cache, data |-> fs.data, bin |-> fs.bin,
          extracted_path |-> <<>>, extracted_bin |-> {}, symlinks |-> {}]
    ELSE SymlinkStep(fs, a, ex,
                     Executables_identify(ex.data, ex.path, a.bin_pattern))

\* extractAndSymlink
extractAndSymlink(fs, a, file_name) ==
    IdentifyStep(fs, a, extract(fs.cache, fs.data, file_name))

\* metadata = dict(repo=..., tag=..., meta={**kwargs, **download_meta,
\* **install_meta}): the record install writes
Metadata(a, tag, tag_info, asset_url, file_name, install_meta) ==
    [kind |-> "record", repo_id |-> a.repo_id, tag |-> tag, url |-> a.url,
     asset_pattern |-> a.asset_pattern, bin_pattern |-> a.bin_pattern,
     symlink_alias |-> a.symlink_alias, asset_url |-> asset_url,
     asset |-> file_name, extracted_path |-> install_meta.extracted_path,
     extracted_bin |-> install_meta.extracted_bin,
     symlinks |-> install_meta.symlinks,
     tag_info |-> [empty |-> tag_info.empty,
                   tag_name |-> IF tag_info.empty THEN asset_url
                                ELSE tag_info.tag_name,
                   published |-> tag_info.published]]

\* the end of install: the record is written with what extractAndSymlink
\* returned, unless it raised
WriteStep(fs, a, tag, tag_info, asset_url, file_name, install_meta) ==
    IF install_meta.raised THEN Done(fs, "extract_error")
    ELSE Done([meta |-> Meta_write(fs.meta,
                          Metadata(a, tag, tag_info, asset_url, file_name,
                                   install_meta)),
               bin |-> install_meta.bin, cache |-> install_meta.cache,
               data |-> install_meta.data],
              IF install_meta.extracted_bin = {} THEN "ok_no_binaries"
              ELSE "ok")

\* install after the download: Checksum.verify, the download_only return,
\* extractAndSymlink, Meta.write
VerifyStep(fs, a, tag, tag_info, asset_url, file_name, checked) ==
    IF checked \in {"mismatch", "item_error"} THEN Done(fs, checked)
    ELSE IF a.download_only THEN Done(fs, "download_only")
    ELSE WriteStep(fs, a, tag, tag_info, asset_url, file_name,
                   extractAndSymlink(fs, a, file_name))

\* install once the download is in cache_dir
Downloaded(fs, a, tag, tag_info, asset_url, file_name) ==
    VerifyStep(fs, a, tag, tag_info, asset_url, file_name,
               verify(tag_info.assets, file_name, tag_info.remote,
                      fs.cache[file_name]))

\* install from the download on; asset_filename = url.split('/')[-1]
InstallFrom(fs, a, e, tag, tag_info, asset_url) ==
    Downloaded([fs EXCEPT !.cache =
                    download(fs.cache, asset_url, e.content,
                             a.force_download \/ a.download_only)],
               a, tag, tag_info, asset_url, asset_url)

\* install once the asset url is known: the prompt, then the download
Resolved(fs, a, e, tag, asset_url) ==
    IF asset_url = NoUrl THEN Done(fs, "no_answer")
    ELSE IF ~a.confirm /\ ~e.proceed THEN Done(fs, "declined")
    ELSE InstallFrom(fs, a, e, tag, e.release, asset_url)

\* install(repo_id, tag, url, asset_pattern, bin_pattern, symlink_alias,
\* confirm, force_download, download_only): the file system after the
\* command and how it ended.  e is what the command meets: the release the
\* tag resolves to, the content the asset url serves and the operator's
\* answers
install(fs, a, e) ==
    LET tag == IF a.url = NoUrl THEN a.tag ELSE parseVersion(a.url)
        tag_info == e.release
        asset_urls == tag_info.assets
    IN  IF a.url = NoUrl /\ tag_info.empty THEN Done(fs, "tag_not_found")
        ELSE IF a.url = NoUrl /\ asset_urls = {} THEN Done(fs, "no_assets")
        ELSE Resolved(fs, a, e, tag,
                      IF a.url = NoUrl
                      THEN Asset_identify(asset_urls, a.asset_pattern,
                                          e.patterns, 0).url
                      ELSE a.url)

\* the ways install ends with an exception
Raised == {"no_answer", "item_error", "mismatch", "extract_error"}

\* the ways install ends without a new record
Failed == Raised \cup {"tag_not_found", "no_assets", "declined"}

----------------------------------------------------------------------------
(* uninstall *)

\* the symlinks of a record removed from bin_dir, one rmRecursive each
RECURSIVE RemoveAll(_, _)
RemoveAll(b, names) ==
    IF names = {} THEN b
    ELSE LET n == CHOOSE x \in names : TRUE
         IN  RemoveAll(rmRecursive(b, n), names \ {n})

\* uninstall that leaves the record file behind
UninstallKeepRecord(fs, repo_id, confirm, proceed) ==
    LET metadata == Meta_read(fs.meta, repo_id)
    IN  IF metadata.kind = "none" THEN Done(fs, "not_installed")
        ELSE IF ~confirm /\ ~proceed THEN Done(fs, "declined")
        ELSE Done([meta |-> fs.meta,
                   bin |-> RemoveAll(fs.bin, metadata.symlinks),
                   cache |-> rmRecursive(fs.cache, metadata.asset),
                   data |-> rmRecursive(fs.data, metadata.extracted_path)],
                  "ok")

\* uninstall(repo_id, confirm); proceed is the operator's answer to
\* 'proceed with uninstallation?'
uninstall(fs, repo_id, confirm, proceed) ==
    LET metadata == Meta_read(fs.meta, repo_id)
    IN  IF metadata.kind = "none" THEN Done(fs, "not_installed")
        ELSE IF ~confirm /\ ~proceed THEN Done(fs, "declined")
        ELSE Done([meta |-> [fs.meta EXCEPT ![MetaFile(repo_id)] = NoRecord],
                   bin |-> RemoveAll(fs.bin, metadata.symlinks),
                   cache |-> rmRecursive(fs.cache, metadata.asset),
                   data |-> rmRecursive(fs.data, metadata.extracted_path)],
                  "ok")

----------------------------------------------------------------------------
(* upgrade and upgradeAll *)

UpgradeDone(fs, outcome, un, inner) ==
    [fs |-> fs, outcome |-> outcome, un |-> un, inner |-> inner]

\* installed_tag_date: the record's publish time, or the epoch
installed_tag_date(metadata) ==
    IF metadata.kind = "none" \/ metadata.tag_info.empty
    THEN Epoch
    ELSE metadata.tag_info.published

\* the comparison of upgrade with > in place of >=
UpToDateStrict(installed, latest) == installed > latest

\* installed_tag_date >= latest_tag_date
UpToDate(installed, latest) == installed >= latest

\* the keyword arguments upgrade replays: the stored ones with tag forced to
\* `latest`, or the repo_id alone when there is no record
UpgradeArgs(metadata, repo_id, confirm) ==
    IF metadata.kind = "none"
    THEN [repo_id |-> repo_id, tag |-> LatestTag, url |-> NoUrl,
          asset_pattern |-> AnyPattern, bin_pattern |-> AnyPattern,
          symlink_alias |-> NoAlias, confirm |-> confirm,
          force_download |-> FALSE, download_only |-> FALSE]
    ELSE [repo_id |-> metadata.repo_id, tag |-> LatestTag,
          url |-> metadata.url, asset_pattern |-> metadata.asset_pattern,
          bin_pattern |-> metadata.bin_pattern,
          symlink_alias |-> metadata.symlink_alias, confirm |-> confirm,
          force_download |-> FALSE, download_only |-> FALSE]

\* the end of upgrade: install(**kwargs, tag='latest', confirm=confirm) on
\* what uninstall left
Reinstalled(un, inst) == UpgradeDone(inst.fs, "replayed", un.outcome, inst.outcome)

Replay(kwargs, e, un) ==
    Reinstalled(un,
                install(un.fs, kwargs,
                        [release |-> IF kwargs.url = NoUrl THEN e.latest
                                     ELSE e.tagged,
                         content |-> e.content, proceed |-> e.proceed,
                         patterns |-> e.patterns]))

\* upgrade(repo_id, confirm).  e is what the command meets: the release
\* `latest` resolves to, the release the version of a stored url resolves
\* to, the content the asset url serves and the operator's answers (switch:
\* to 'upgrade from ... tag to latest tag?', uninstall and proceed: to the
\* prompts of uninstall and install)
upgrade(fs, repo_id, confirm, e) ==
    LET metadata == Meta_read(fs.meta, repo_id)
        latest_tag == e.latest
        kwarg_tag == IF metadata.kind = "none" THEN <<>> ELSE metadata.tag
    IN  IF latest_tag.empty THEN UpgradeDone(fs, "no_latest", "none", "none")
        ELSE IF UpToDate(installed_tag_date(metadata), latest_tag.published)
             THEN UpgradeDone(fs, "up_to_date", "none", "none")
        ELSE IF kwarg_tag # LatestTag /\ ~e.switch
             THEN UpgradeDone(fs, "switch_declined", "none", "none")
        ELSE Replay(UpgradeArgs(metadata, repo_id, confirm), e,
                    uninstall(fs, repo_id, confirm, e.uninstall))

\* the loop of upgradeAll over the records read at its start, in the order
\* glob lists them: upgrade for each record without a url; an exception
\* raised by one upgrade ends the command.  Gives the file system and, per
\* record file, what happened to it: "absent" (no record), "skipped_url"
\* (filtered out), "not_reached" (its upgrade never ran) or how its upgrade
\* ended.
RECURSIVE UpgradeEach(_, _, _, _, _, _)

\* the filter of the docstring: no url and tag `latest`
EligibleLatestOnly(repo) == repo.url = NoUrl /\ repo.tag = LatestTag

\* the filter of the comprehension: `if not repo.get('url')`
Eligible(repo) == repo.url = NoUrl

Upgraded(r, f, metadata, order, confirm, envs, results) ==
    LET how == IF r.outcome = "replayed" THEN r.inner ELSE r.outcome
    IN  IF r.inner \in Raised
        THEN [fs |-> r.fs, results |-> [results EXCEPT ![f] = how]]
        ELSE UpgradeEach(r.fs, metadata, Tail(order), confirm, envs,
                         [results EXCEPT ![f] = how])

UpgradeEach(fs, metadata, order, confirm, envs, results) ==
    IF order = <<>> THEN [fs |-> fs, results |-> results]
    ELSE LET f == Head(order)
             repo == metadata[f]
         IN  IF ~Eligible(repo)
             THEN UpgradeEach(fs, metadata, Tail(order), confirm, envs, results)
             ELSE Upgraded(upgrade(fs, repo.repo_id, confirm, envs[f]),
                           f, metadata, order, confirm, envs, results)

\* upgradeAll(confirm): order lists the record files present, envs gives what
\* the upgrade of each meets
upgradeAll(fs, order, confirm, envs) ==
    UpgradeEach(fs, fs.meta, order, confirm, envs,
                [f \in DOMAIN fs.meta |->
                    IF fs.meta[f].kind = "none" THEN "absent"
                    ELSE IF ~Eligible(fs.meta[f]) THEN "skipped_url"
                    ELSE "not_reached"])

----------------------------------------------------------------------------
(* Inputs of the component specifications *)

A_tgz   == <<"tool", "linux", "amd64", "tgz">>
A_mac   == <<"tool", "darwin", "amd64", "tgz">>
A_src   == <<"tool", "src", "tgz">>
A_l64   == <<"tool", "linux64", "tgz">>
A_deb   == <<"tool", "linux", "amd64", "deb">>
A_rpm   == <<"tool", "linux", "rpm">>
A_sha   == <<"tool", "linux", "amd64", "tgz", "sha256">>
A_msha  == <<"tool", "darwin", "amd64", "tgz", "sha256">>
A_sums  == <<"checksums", "txt">>

AssetUniverse ==
    {A_tgz, A_mac, A_src, A_l64, A_deb, A_rpm, A_sha, A_msha, A_sums}

\* SHA-256 digests
Digests == {"h1", "h2"}

\* rows (digest, filename) of an aggregated checksum manifest
ManifestRows ==
    [checksum : Digests, filename : {A_tgz, <<"dist">> \o A_tgz, A_mac}]

\* what the release serves for its checksum files
Remotes ==
    [manifest : {m \in SUBSET ManifestRows :
                    m # {} /\ Cardinality(m) <= MaxRows},
     sidecar : Digests]

UserPatterns ==
    {AnyPattern, [tok |-> "deb", end |-> TRUE], [tok |-> "darwin", end |-> FALSE],
     [tok |-> "tgz", end |-> TRUE], [tok |-> "linux", end |-> FALSE]}

SeqsUpTo(S, n) == UNION {[1..k -> S] : k \in 0..n}

CandidateSets ==
    {s \in SUBSET AssetUniverse : s # {} /\ Cardinality(s) <= MaxAssets}

----------------------------------------------------------------------------
(* Inputs of the lifecycle *)

\* repository identities owner/name
Repos == {[owner |-> <<"o">>, name |-> <<"a">>],
          [owner |-> <<"o">>, name |-> <<"b">>]}

NoRepo == [owner |-> <<>>, name |-> <<>>]

MetaFiles == {MetaFile(r) : r \in Repos}

\* what an asset url can serve: a tar archive whose entries share the prefix
\* base_dir (or none), a standalone binary, or an archive cut short
TarV1 == [kind |-> "tar", base_dir |-> <<"tool", "1">>, size |-> 2, sha |-> "h1",
          files |-> {[dir |-> <<>>, name |-> <<"tool">>, x |-> TRUE]}]
TarV2 == [kind |-> "tar", base_dir |-> <<"tool", "2">>, size |-> 2, sha |-> "h2",
          files |-> {[dir |-> <<"bin">>, name |-> <<"tool">>, x |-> TRUE],
                     [dir |-> <<"bin">>, name |-> <<"toolctl">>, x |-> TRUE]}]
TarDocs == [kind |-> "tar", base_dir |-> <<"docs">>, size |-> 1, sha |-> "h3",
            files |-> {[dir |-> <<>>, name |-> <<"README">>, x |-> FALSE]}]
Binary == [kind |-> "binary", base_dir |-> <<>>, size |-> 1, sha |-> "h4",
           files |-> {}]
Truncated == [kind |-> "truncated", base_dir |-> <<>>, size |-> 1, sha |-> "h5",
              files |-> {}]

Contents == {TarV1, TarV2, TarDocs, Binary, Truncated}

\* a url given with --url
U_direct == <<"tool", "2", "tgz">>

\* a pinned release tag
PinnedTag == <<"v1">>

\* the checksum files of a release of the lifecycle hold the digest of TarV1
LifeRemote ==
    [manifest |-> {[checksum |-> "h1", filename |-> A_tgz]}, sidecar |-> "h1"]

\* the releases of the lifecycle: the assets of a tag and what the asset url
\* serves
ReleaseKinds ==
    {[assets |-> {A_tgz}, content |-> TarV1],
     [assets |-> {A_tgz}, content |-> TarDocs],
     [assets |-> {A_tgz}, content |-> Binary],
     [assets |-> {A_tgz}, content |-> Truncated],
     [assets |-> {A_tgz, A_sha}, content |-> TarV1],
     [assets |-> {A_tgz, A_sha}, content |-> TarV2],
     [assets |-> {A_tgz, A_msha}, content |-> TarV1],
     [assets |-> {}, content |-> TarV1]}

Release(t, assets) ==
    [empty |-> FALSE, tag_name |-> <<"v">>, published |-> t,
     assets |-> assets, remote |-> LifeRemote]

\* what a tag lookup and a download can meet: a release published at some
\* time from 1 to MaxTime, or no release for the tag
Worlds(times) ==
    {[release |-> Release(t, k.assets), content |-> k.content] :
        t \in times, k \in ReleaseKinds}
    \cup {[release |-> EmptyTag, content |-> TarV1]}

\* the answers to the asset_pattern prompt: the operator gives none
Answers(w) == {<<>>}

CacheNames == {A_tgz, U_direct}

DataNames ==
    {c.base_dir : c \in {k \in Contents : k.base_dir # <<>>}}
        \cup {Stem(n) : n \in CacheNames}
        \cup {RStripTar(Stem(n)) : n \in CacheNames}

BinNames ==
    {<<"tool">>, <<"toolctl">>} \cup {r.name : r \in Repos} \cup DataNames

\* --tag and --url of an install: latest, a pinned tag, or a direct url
Selections ==
    {[tag |-> LatestTag, url |-> NoUrl], [tag |-> PinnedTag, url |-> NoUrl],
     [tag |-> LatestTag, url |-> U_direct]}

\* install's arguments
InstallArgs ==
    {[repo_id |-> r, tag |-> s.tag, url |-> s.url, asset_pattern |-> AnyPattern,
      bin_pattern |-> AnyPattern, symlink_alias |-> NoAlias, confirm |-> c,
      force_download |-> FALSE, download_only |-> FALSE] :
        r \in Repos, s \in Selections, c \in BOOLEAN}

\* the operator's answers to a yes/no prompt that --confirm would skip
YesNo(confirm) == IF confirm THEN {TRUE} ELSE BOOLEAN

\* the operator's answer to one prompt: a yes is what --confirm gives, so
\* without --confirm the answer taken is no
Answer(confirm) == {confirm}

\* what an install can meet: a release published at time 1, or none
InstallEnvs(a) ==
    UNION {
        {[release |-> w.release, content |-> w.content, proceed |-> p,
          patterns |-> ans] : p \in Answer(a.confirm), ans \in Answers(w)} :
        w \in Worlds({1})}

\* what an upgrade can meet; the version of a stored url names no release
UpgradeEnvsOf(worlds, switches, answers) ==
    UNION {
        {[latest |-> w.release, tagged |-> EmptyTag, content |-> w.content,
          switch |-> sw, uninstall |-> yn.uninstall, proceed |-> yn.proceed,
          patterns |-> ans] :
            sw \in switches, yn \in answers, ans \in Answers(w)} :
        w \in worlds}

\* the switch prompt is answered only when the record makes upgrade ask, the
\* other two only without --confirm, and not both with yes; without a record
\* `latest` is not found or is the plain release of TarV1
UpgradeEnvs(confirm, metadata) ==
    IF metadata.kind = "none"
    THEN UpgradeEnvsOf({w \in Worlds({1}) :
                            w.release.empty
                                \/ (w.release.assets = {A_tgz} /\ w.content = TarV1)},
                       BOOLEAN,
                       {[uninstall |-> TRUE, proceed |-> confirm]})
    ELSE UpgradeEnvsOf(Worlds(1..MaxTime),
                       IF metadata.tag = LatestTag THEN {TRUE} ELSE BOOLEAN,
                       {yn \in [uninstall : YesNo(confirm), proceed : YesNo(confirm)] :
                            confirm \/ ~(yn.uninstall /\ yn.proceed)})

\* what the upgrades of one upgradeAll can meet: the newest releases of the
\* two tarballs, and an operator who, when asked, declines
UpgradeAllEnvs(confirm) ==
    UpgradeEnvsOf({w \in Worlds({MaxTime}) : w.content \in {TarV1, TarV2}},
                  {confirm},
                  {[uninstall |-> confirm, proceed |-> confirm]})

\* the orders in which glob can list the record files that exist
Orders(m) ==
    LET present == {f \in DOMAIN m : m[f].kind # "none"}
    IN  {o \in SeqsUpTo(present, Cardinality(present)) :
            /\ Len(o) = Cardinality(present)
            /\ \A i, j \in DOMAIN o : i # j => o[i] # o[j]}

----------------------------------------------------------------------------
(* The commands *)

FS == [meta |-> meta, bin |-> bin, cache |-> cache, data |-> data]

\* the command that ran last, the repository it was given, how it ended
\* (for an upgrade that went on to reinstall: how that install ended), the
\* publish time of the latest tag an upgrade met, a note on what the command
\* met, the asset file an install went on to download, and the record files
\* an upgradeAll invoked upgrade for
Idle == [op |-> "none", repo_id |-> NoRepo, outcome |-> "none",
         latest |-> 0, note |-> "none", asset |-> NoUrl, invoked |-> {}]

LifecycleIdle ==
    /\ meta = [f \in MetaFiles |-> NoRecord]
    /\ bin = [n \in BinNames |-> NoEntry]
    /\ cache = [n \in CacheNames |-> NoFile]
    /\ data = [n \in DataNames |-> NoEntry]
    /\ last = Idle
    /\ ops = 0

ComponentIdle ==
    /\ inp = [none |-> TRUE]
    /\ out = NotRun

Init == LifecycleIdle /\ ComponentIdle

\* the command leaves the file system fs
Ran(fs) ==
    /\ ops' = ops + 1
    /\ meta' = fs.meta
    /\ bin' = fs.bin
    /\ cache' = fs.cache
    /\ data' = fs.data
    /\ UNCHANGED <<inp, out>>

\* the release holds a reference digest for the asset and it is not the
\* digest of the file the download leaves in cache_dir
RefDiffers(fs, a, e, asset_url) ==
    LET refs ==
            {r.checksum : r \in {x \in e.release.remote.manifest :
                /\ \E u \in e.release.assets : IsChecksumsFile(u)
                /\ EndsWith(x.filename, asset_url)}}
            \cup {e.release.remote.sidecar : u \in
                    {x \in e.release.assets :
                        IsChecksumFile(x) /\ Contains(x, asset_url)}}
        file == download(fs.cache, asset_url, e.content,
                         a.force_download \/ a.download_only)[asset_url]
    IN  /\ asset_url # NoUrl
        /\ refs # {}
        /\ \A h \in refs : h # file.sha

\* the asset url an install settles on
AssetUrl(a, e) ==
    IF a.url # NoUrl THEN a.url
    ELSE IF e.release.assets = {} THEN NoUrl
    ELSE Asset_identify(e.release.assets, a.asset_pattern, e.patterns, 0).url

Install ==
    /\ ops < MaxOps
    /\ \E a \in InstallArgs : \E e \in InstallEnvs(a) :
        \E r \in {install(FS, a, e)} :
            /\ Ran(r.fs)
            /\ last' = [Idle EXCEPT
                    !.op = "install", !.repo_id = a.repo_id,
                    !.outcome = r.outcome,
                    !.note = IF (a.confirm \/ e.proceed)
                                  /\ RefDiffers(FS, a, e, AssetUrl(a, e))
                             THEN "ref_differs" ELSE "none",
                    !.asset = IF a.confirm \/ e.proceed THEN AssetUrl(a, e)
                              ELSE NoUrl]

\* some target of the record is already gone when uninstall starts
TargetMissing(fs, metadata) ==
    \/ \E n \in metadata.symlinks : fs.bin[n].kind = "none"
    \/ fs.cache[metadata.asset].kind = "none"
    \/ fs.data[metadata.extracted_path].kind = "none"

Uninstall ==
    /\ ops < MaxOps
    /\ \E repo_id \in Repos, confirm \in BOOLEAN :
        \E proceed \in YesNo(confirm) :
            \E r \in {uninstall(FS, repo_id, confirm, proceed)},
               metadata \in {Meta_read(meta, repo_id)} :
                /\ Ran(r.fs)
                /\ last' = [Idle EXCEPT
                        !.op = "uninstall", !.repo_id = repo_id,
                        !.outcome = r.outcome,
                        !.note = IF metadata.kind # "none"
                                      /\ TargetMissing(FS, metadata)
                                 THEN "target_missing" ELSE "none"]

\* how an upgrade ended: as upgrade itself, or as the install it replayed
UpgradeOutcome(r) == IF r.outcome = "replayed" THEN r.inner ELSE r.outcome

Upgrade ==
    /\ ops < MaxOps
    /\ \E repo_id \in Repos, confirm \in BOOLEAN :
        \E e \in UpgradeEnvs(confirm, Meta_read(meta, repo_id)) :
            \E r \in {upgrade(FS, repo_id, confirm, e)} :
                /\ Ran(r.fs)
                /\ last' = [Idle EXCEPT
                        !.op = "upgrade", !.repo_id = repo_id,
                        !.outcome = UpgradeOutcome(r),
                        !.latest = e.latest.published,
                        !.note = r.un]

\* how an upgradeAll ended: "stopped" when an exception ended it before
\* every record without a url had its upgrade, else "raised" when the last
\* upgrade raised, else "done"
UpgradeAllOutcome(results) ==
    IF \E f \in DOMAIN results : results[f] = "not_reached" THEN "stopped"
    ELSE IF \E f \in DOMAIN results : results[f] \in Raised THEN "raised"
    ELSE "done"

UpgradeAll ==
    /\ ops < MaxOps
    /\ \E confirm \in BOOLEAN : \E order \in Orders(meta) :
        \E envs \in [{order[i] : i \in DOMAIN order} -> UpgradeAllEnvs(confirm)] :
            \E r \in {upgradeAll(FS, order, confirm, envs)} :
                /\ order # <<>>
                /\ Ran(r.fs)
                /\ last' = [Idle EXCEPT
                        !.op = "upgradeAll",
                        !.outcome = UpgradeAllOutcome(r.results),
                        !.invoked = {f \in DOMAIN r.results :
                            r.results[f] \notin
                                {"absent", "skipped_url", "not_reached"}}]

Next == Install \/ Uninstall \/ Upgrade \/ UpgradeAll

Spec == Init /\ [][Next]_vars

----------------------------------------------------------------------------
(* Properties of the lifecycle *)

\* the record file of the repository the last command was given
LastFile == MetaFile(last.repo_id)

\* the ways an install or an upgrade ends without having installed
Aborted == Failed \cup {"no_latest", "switch_declined"}

\* C1: when an install or an upgrade of a repository fails or is aborted
\* (tag not found, no assets, declined prompt, checksum mismatch, extraction
\* failure), the record a previous install of that repository wrote is still
\* there afterwards, unchanged.
C1_FailureKeepsPreviousRecord ==
    [][(/\ last'.op \in {"install", "upgrade"}
        /\ last'.outcome \in Aborted
        /\ meta[LastFile'].kind = "record")
       => meta'[LastFile'] = meta[LastFile']]_vars

\* C2: in upgradeAll an upgrade that raises does not keep the upgrades of the
\* records after it from running: no record without a url is left without
\* its upgrade.
C2_BatchUpgradeReachesEveryRecord ==
    last.op = "upgradeAll" => last.outcome # "stopped"

\* C3: for an installed repository a confirmed uninstall removes every
\* symlink of the record, the cached download, the extracted path and the
\* record, whether or not they are all still there; a second uninstall,
\* confirmed or not, ends with the `not installed` warning and changes
\* nothing.
C3_UninstallIdempotent ==
    \A repo_id \in Repos :
        LET metadata == Meta_read(meta, repo_id)
            once == uninstall(FS, repo_id, TRUE, FALSE)
        IN  metadata.kind = "record" =>
                /\ once.outcome = "ok"
                /\ \A n \in metadata.symlinks : once.fs.bin[n].kind = "none"
                /\ once.fs.cache[metadata.asset].kind = "none"
                /\ once.fs.data[metadata.extracted_path].kind = "none"
                /\ once.fs.meta[MetaFile(repo_id)].kind = "none"
                /\ \A confirm, proceed \in BOOLEAN :
                       uninstall(once.fs, repo_id, confirm, proceed)
                           = Done(once.fs, "not_installed")

\* C3 witness: a confirmed uninstall of an installed repository has run while
\* one of its deletion targets was already gone, and the record is gone.
C3_Witness ==
    /\ last.op = "uninstall"
    /\ last.outcome = "ok"
    /\ last.note = "target_missing"
    /\ meta[LastFile].kind = "none"

\* C4: an upgrade of a record whose stored publish time is greater than or
\* equal to the publish time of the latest tag changes no symlink, cached
\* file, extracted tree or record.
C4_UpgradeNoOp ==
    [][(/\ last'.op = "upgrade"
        /\ last'.latest >= 1
        /\ meta[LastFile'].kind = "record"
        /\ ~meta[LastFile'].tag_info.empty
        /\ meta[LastFile'].tag_info.published >= last'.latest)
       => UNCHANGED <<meta, bin, cache, data>>]_vars

\* C4 witness: an upgrade has met a latest tag published no later than the
\* installed one (here: at the same time) and the record is still there.
C4_Witness ==
    /\ last.op = "upgrade"
    /\ last.latest >= 1
    /\ meta[LastFile].kind = "record"
    /\ ~meta[LastFile].tag_info.empty
    /\ meta[LastFile].tag_info.published = last.latest
    /\ last.outcome = "up_to_date"

\* C5: when upgrade finds the installed release older than latest and the
\* stored tag is not `latest` (pinned tag, or version of a direct url), it
\* changes nothing if the operator declines the switch, and an upgrade that
\* goes through leaves a record whose tag is `latest`.
C5_UpgradeSwitchesToLatest ==
    [][(/\ last'.op = "upgrade"
        /\ meta[LastFile'].kind = "record"
        /\ meta[LastFile'].tag # LatestTag
        /\ last'.latest > installed_tag_date(meta[LastFile']))
       => /\ last'.outcome = "switch_declined"
                => UNCHANGED <<meta, bin, cache, data>>
          /\ last'.outcome \in {"ok", "ok_no_binaries"}
                => /\ meta'[LastFile'].kind = "record"
                   /\ meta'[LastFile'].tag = LatestTag]_vars

\* C6: install writes no record when Executables.identify finds no
\* executable in the extracted tree: every record lists an executable.
C6_NoRecordWithoutExecutables ==
    \A f \in MetaFiles : meta[f].kind = "record" => meta[f].extracted_bin # {}

\* C7: when the release holds a reference digest for the asset and it
\* differs from the SHA-256 of the downloaded file, install extracts
\* nothing, links nothing and writes no record, and the downloaded file stays
\* in cache_dir.
C7_MismatchAbortsBeforeExtraction ==
    [][(last'.op = "install" /\ last'.note = "ref_differs")
       => /\ UNCHANGED <<meta, bin, data>>
          /\ cache'[last'.asset].kind # "none"]_vars

\* C7 witness: an install has downloaded a file whose digest differs from the
\* reference digest; it ended with the ValueError and the file is in
\* cache_dir.
C7_Witness ==
    /\ last.op = "install"
    /\ last.note = "ref_differs"
    /\ last.outcome = "mismatch"
    /\ cache[last.asset].kind # "none"

LinkBelongs(metadata, n) ==
    /\ n \in metadata.symlinks
    /\ bin[n].kind = "link"
    /\ bin[n].target.root = metadata.extracted_path

\* C21: a completed uninstall of one identity leaves unchanged every symlink,
\* the extracted tree and the cached file that belong to another identity
\* that is installed, whatever installs came before.
C21_UninstallLeavesOthers ==
    [][(last'.op = "uninstall" /\ last'.outcome = "ok")
       => \A q \in Repos \ {last'.repo_id} :
             LET metadata == Meta_read(meta, q)
             IN  metadata.kind = "record" =>
                    /\ \A n \in BinNames :
                          LinkBelongs(metadata, n) => bin'[n] = bin[n]
                    /\ data'[metadata.extracted_path]
                          = data[metadata.extracted_path]
                    /\ cache'[metadata.asset] = cache[metadata.asset]]_vars

\* C22: every symlink in bin_dir is listed in the record of an installed
\* identity, and every symlink a record lists is in bin_dir and points into
\* the tree that install extracted.
C22_NoOrphanNoPhantomLinks ==
    /\ \A n \in BinNames :
          bin[n].kind = "link" =>
             \E f \in MetaFiles :
                meta[f].kind = "record" /\ n \in meta[f].symlinks
    /\ \A f \in MetaFiles :
          meta[f].kind = "record" =>
             \A n \in meta[f].symlinks :
                /\ bin[n].kind = "link"
                /\ bin[n].target.root = meta[f].extracted_path

----------------------------------------------------------------------------
(* SpecIdentify: Asset.identify on every candidate set, pattern and answers *)

InitIdentify ==
    /\ LifecycleIdle
    /\ inp \in [asset_urls : CandidateSets, asset_pattern : UserPatterns,
                answers : SeqsUpTo(UserPatterns, MaxAsk)]
    /\ out = NotRun

RunIdentify ==
    /\ ~out.done
    /\ out' = [done |-> TRUE,
               asset |-> Asset_identify(inp.asset_urls, inp.asset_pattern,
                                        inp.answers, 0)]
    /\ UNCHANGED <<meta, bin, cache, data, last, ops, inp>>

NextIdentify == RunIdentify

SpecIdentify == InitIdentify /\ [][NextIdentify]_vars

\* C9 (as stated): a blacklisted candidate is never returned while the set
\* holds a non-blacklisted candidate with an equal or lower raw OS/arch count
C9_BlacklistedNeverWins ==
    (out.done /\ out.asset.url # NoUrl /\ filetype_veto(out.asset.url)) =>
        ~ \E n \in inp.asset_urls :
            /\ ~filetype_veto(n)
            /\ RawMatch(n) <= RawMatch(out.asset.url)

\* C9 (amended): a blacklisted candidate is never returned while the set holds
\* a non-blacklisted candidate whose raw OS/arch count is equal to its own or
\* lower by one and that the pattern in force matches whenever it matches the
\* blacklisted one
C9_BlacklistedNeverWinsSamePattern ==
    (out.done /\ out.asset.url # NoUrl /\ filetype_veto(out.asset.url)) =>
        ~ \E n \in inp.asset_urls :
            /\ ~filetype_veto(n)
            /\ RawMatch(n) <= RawMatch(out.asset.url)
            /\ RawMatch(n) >= RawMatch(out.asset.url) - 1
            /\ (Matches(out.asset.pattern, out.asset.url)
                    => Matches(out.asset.pattern, n))

\* C9 witness: a blacklisted candidate is returned from a set that also holds
\* a non-blacklisted candidate
C9_Witness ==
    /\ out.done
    /\ out.asset.url # NoUrl
    /\ filetype_veto(out.asset.url)
    /\ \E n \in inp.asset_urls : ~filetype_veto(n)

\* the score the claim gives a candidate under pattern p
StatedScore(n, p) ==
    Bool2Int(OS_PATTERN(n)) + Bool2Int(ARCH_PATTERN(n))
        - Bool2Int(filetype_veto(n)) + 2 * Bool2Int(Matches(p, n))

\* the pattern in force after k answers
PatternInForce(k) == IF k = 0 THEN inp.asset_pattern ELSE inp.answers[k]

\* the candidates that alone hold the maximum score after k answers
UniqueTop(k) ==
    {a \in inp.asset_urls :
        \A b \in inp.asset_urls \ {a} :
            StatedScore(b, PatternInForce(k)) < StatedScore(a, PatternInForce(k))}

\* C17: identify returns a candidate only if it alone holds the maximum of
\* os + arch - blacklisted + 2 * pattern over the whole candidate set under
\* the pattern in force; every earlier pattern left no unique maximum on the
\* same full set, and without a unique maximum it returns nothing until the
\* operator has answered. The result is a function of the set, the pattern
\* and the answers.
C17_UniqueMaximumOrAsk ==
    out.done =>
        /\ out.asset.asked \in 0..Len(inp.answers)
        /\ out.asset.pattern = PatternInForce(out.asset.asked)
        /\ \A k \in 0..(out.asset.asked - 1) : UniqueTop(k) = {}
        /\ IF out.asset.url # NoUrl
           THEN UniqueTop(out.asset.asked) = {out.asset.url}
           ELSE /\ UniqueTop(out.asset.asked) = {}
                /\ out.asset.asked = Len(inp.answers)

\* C17 witness: identify has asked for a pattern and returned a candidate
\* that is not among those that tied under the first pattern.
C17_Witness ==
    /\ out.done
    /\ out.asset.url # NoUrl
    /\ out.asset.asked >= 1
    /\ out.asset.url \notin MaxScorers(inp.asset_urls, inp.asset_pattern)

----------------------------------------------------------------------------
(* SpecChecksum: Checksum.verify on every candidate set and resolved asset *)

InitChecksum ==
    /\ LifecycleIdle
    /\ \E urls \in CandidateSets \cup {{}} :
        inp \in [asset_urls : {urls},
                 asset_filename : IF urls = {} THEN {A_tgz}
                                  ELSE {u \in urls : ~IsChecksumsFile(u)
                                                        /\ ~IsChecksumFile(u)},
                 remote : Remotes, content : {[sha |-> "h1"]}]
    /\ out = NotRun

RunVerify ==
    /\ ~out.done
    /\ out' = [done |-> TRUE,
               result |-> verify(inp.asset_urls, inp.asset_filename,
                                 inp.remote, inp.content)]
    /\ UNCHANGED <<meta, bin, cache, data, last, ops, inp>>

NextChecksum == RunVerify

SpecChecksum == InitChecksum /\ [][NextChecksum]_vars

\* the release holds a reference digest for the asset: a row of the manifest
\* it publishes, or a per-asset checksum file named after the asset
HasReference(i) ==
    \/ /\ \E u \in i.asset_urls : IsChecksumsFile(u)
       /\ \E r \in i.remote.manifest : EndsWith(r.filename, i.asset_filename)
    \/ \E u \in i.asset_urls :
          IsChecksumFile(u) /\ Contains(u, i.asset_filename)

\* C8: when the release holds no reference digest for the resolved asset,
\* verify completes without raising and verification is skipped
C8_AbsenceIsNotAnError ==
    (out.done /\ ~HasReference(inp)) => out.result = "skipped"

----------------------------------------------------------------------------
(* SpecLink: Executables.link on a destination of bin_dir and a target of    *)
(* data_dir, in every state they can be in                                   *)

\* the entry of data_dir the targets are under
LinkRoot == <<"tool", "1">>

\* what can be at LinkRoot: nothing, a file, or a tree holding `tool`
LinkRootEntries ==
    {NoEntry, ForeignFile, ExeFile,
     [kind |-> "dir", files |-> {[dir |-> <<>>, name |-> <<"tool">>, x |-> TRUE]}]}

\* the targets link is called with: LinkRoot itself or a file below it
LinkTargets ==
    {RootPath(LinkRoot),
     FilePath(LinkRoot, [dir |-> <<>>, name |-> <<"tool">>]),
     FilePath(LinkRoot, [dir |-> <<>>, name |-> <<"toolctl">>])}

\* the destinations
LinkNames == {<<"tool">>, <<"toolctl">>}

\* what can be at a destination: nothing, a file, or a link
LinkEntries ==
    {NoEntry, ForeignFile} \cup {[kind |-> "link", target |-> t] : t \in LinkTargets}

InitLink ==
    /\ meta = [f \in MetaFiles |-> NoRecord]
    /\ cache = [n \in CacheNames |-> NoFile]
    /\ last = Idle
    /\ ops = 0
    /\ \E entry \in LinkRootEntries :
           data = [n \in DataNames |-> IF n = LinkRoot THEN entry ELSE NoEntry]
    /\ \E entries \in [LinkNames -> LinkEntries] :
           bin = [n \in BinNames |-> IF n \in LinkNames THEN entries[n]
                                     ELSE NoEntry]
    /\ inp \in [target : LinkTargets, symlink : LinkNames]
    /\ out = NotRun

RunLink ==
    /\ ~out.done
    /\ bin' = link(bin, data, inp.target, inp.symlink)
    /\ out' = [done |-> TRUE, before |-> bin]
    /\ UNCHANGED <<meta, cache, data, last, ops, inp>>

NextLink == RunLink

SpecLink == InitLink /\ [][NextLink]_vars

\* C10: after link, when the target is a regular file the destination is a
\* link to it, whatever file or link was there before, and when it is not
\* bin_dir is as it was: no link is made, nothing is removed.
C10_LinkOnlyToRegularFile ==
    out.done =>
        IF is_file(data, inp.target)
        THEN bin = [out.before EXCEPT
                        ![inp.symlink] = [kind |-> "link", target |-> inp.target]]
        ELSE bin = out.before

\* C10 witness: link has replaced a file or another link at the destination
\* by a link to a target that is a regular file.
C10_Witness ==
    /\ out.done
    /\ is_file(data, inp.target)
    /\ out.before[inp.symlink].kind \in {"file", "link"}
    /\ out.before[inp.symlink] # bin[inp.symlink]
    /\ bin[inp.symlink] = [kind |-> "link", target |-> inp.target]

----------------------------------------------------------------------------
(* SpecSymlink: Executables.symlink on every set of discovered executables,  *)
(* alias and repository                                                      *)

\* the extracted tree the executables are in, and a standalone binary
SymRoot == <<"tool", "1">>
SymBinary == <<"tool", "linux", "amd64">>

\* the executable files of the tree: three plain names and one that carries
\* the OS and the architecture
SymFiles ==
    {[dir |-> <<>>, name |-> <<"tool">>, x |-> TRUE],
     [dir |-> <<"bin">>, name |-> <<"toolctl">>, x |-> TRUE],
     [dir |-> <<"bin">>, name |-> <<"helper">>, x |-> TRUE],
     [dir |-> <<>>, name |-> <<"tool", "x64">>, x |-> TRUE]}

SymExecutables == {FilePath(SymRoot, f) : f \in SymFiles} \cup {RootPath(SymBinary)}

\* what Executables.identify can hand over: the extracted path itself, or
\* files below it
SymDiscovered ==
    {{RootPath(SymBinary)}} \cup SUBSET {FilePath(SymRoot, f) : f \in SymFiles}

\* --symlink-alias: none, a new name, or the name of an executable
SymAliases == {NoAlias, <<"t">>, <<"tool">>}

\* every name a link can be made under
SymNames ==
    {PathName(e) : e \in SymExecutables} \cup {r.name : r \in Repos}
        \cup (SymAliases \ {NoAlias})

InitSymlink ==
    /\ meta = [f \in MetaFiles |-> NoRecord]
    /\ cache = [n \in CacheNames |-> NoFile]
    /\ last = Idle
    /\ ops = 0
    /\ data = [n \in DataNames |->
                IF n = SymRoot THEN [kind |-> "dir", files |-> SymFiles]
                ELSE IF n = SymBinary THEN ExeFile
                ELSE NoEntry]
    /\ bin = [n \in SymNames |-> NoEntry]
    /\ inp \in [extracted_bin : SymDiscovered, repo_id : Repos,
                symlink_alias : SymAliases]
    /\ out = NotRun

RunSymlink ==
    /\ ~out.done
    /\ \E r \in {symlink(bin, data, inp.extracted_bin, inp.repo_id,
                          inp.symlink_alias)} :
          /\ bin' = r.bin
          /\ out' = [done |-> TRUE, symlinks |-> r.symlinks]
    /\ UNCHANGED <<meta, cache, data, last, ops, inp>>

NextSymlink == RunSymlink

SpecSymlink == InitSymlink /\ [][NextSymlink]_vars

\* the name the claim gives the link of a lone executable
LoneName(e, repo_id, symlink_alias) ==
    IF symlink_alias # NoAlias THEN symlink_alias
    ELSE IF OS_PATTERN(PathName(e)) \/ ARCH_PATTERN(PathName(e)) THEN repo_id.name
    ELSE PathName(e)

\* C11: with exactly one discovered executable the link is made under the
\* alias if one is given, else under the last segment of the repository
\* identity if the executable's own file name holds an OS or architecture
\* token, else under the executable's own file name; with more than one the
\* alias is ignored and each executable is linked under its own file name.
\* No other link is made.
C11_SymlinkNaming ==
    out.done =>
        LET named == IF Cardinality(inp.extracted_bin) = 1
                     THEN [e \in inp.extracted_bin |->
                            LoneName(e, inp.repo_id, inp.symlink_alias)]
                     ELSE [e \in inp.extracted_bin |-> PathName(e)]
        IN  /\ out.symlinks = {named[e] : e \in inp.extracted_bin}
            /\ \A e \in inp.extracted_bin :
                   bin[named[e]] = [kind |-> "link", target |-> e]
            /\ \A n \in SymNames \ out.symlinks : bin[n] = NoEntry

\* C11 witness: two executables were linked while an alias was given, each
\* under its own file name.
C11_Witness ==
    /\ out.done
    /\ Cardinality(inp.extracted_bin) = 2
    /\ inp.symlink_alias = <<"t">>
    /\ bin[<<"t">>] = NoEntry
    /\ \A e \in inp.extracted_bin : bin[PathName(e)].kind = "link"

----------------------------------------------------------------------------
(* SpecReplay: an install whose asset may be resolved at the asset_pattern   *)
(* prompt, then an upgrade to a newer release with the same assets while no  *)
(* operator answers                                                          *)

ReplayRepo == [owner |-> <<"o">>, name |-> <<"a">>]

ReplayArgs(asset_pattern) ==
    [repo_id |-> ReplayRepo, tag |-> LatestTag, url |-> NoUrl,
     asset_pattern |-> asset_pattern, bin_pattern |-> AnyPattern,
     symlink_alias |-> NoAlias, confirm |-> TRUE,
     force_download |-> FALSE, download_only |-> FALSE]

InitReplay ==
    /\ meta = [f \in MetaFiles |-> NoRecord]
    /\ bin = [n \in BinNames |-> NoEntry]
    /\ cache = [n \in AssetUniverse |-> NoFile]
    /\ data = [n \in DataNames |-> NoEntry]
    /\ last = Idle
    /\ ops = 0
    /\ inp \in [asset_urls : CandidateSets, asset_pattern : UserPatterns,
                answers : SeqsUpTo(UserPatterns, MaxAsk)]
    /\ out = NotRun

\* install --confirm of the latest release, published at time 1; the operator
\* types inp.answers at the asset_pattern prompt
InstallAsk ==
    /\ last.op = "none"
    /\ \E r \in {install(FS, ReplayArgs(inp.asset_pattern),
                          [release |-> Release(1, inp.asset_urls),
                           content |-> TarV1, proceed |-> TRUE,
                           patterns |-> inp.answers])} :
          /\ Ran(r.fs)
          /\ last' = [Idle EXCEPT !.op = "install", !.repo_id = ReplayRepo,
                                  !.outcome = r.outcome]

\* upgrade --confirm once the install has written its record: latest is a
\* release published at time MaxTime with the same assets, nobody answers
UpgradeReplay ==
    /\ last.op = "install"
    /\ last.outcome \in {"ok", "ok_no_binaries"}
    /\ \E r \in {upgrade(FS, ReplayRepo, TRUE,
                          [latest |-> Release(MaxTime, inp.asset_urls),
                           tagged |-> EmptyTag, content |-> TarV1,
                           switch |-> TRUE, uninstall |-> TRUE,
                           proceed |-> TRUE, patterns |-> <<>>])} :
          /\ meta' = r.fs.meta
          /\ bin' = r.fs.bin
          /\ cache' = r.fs.cache
          /\ data' = r.fs.data
          /\ ops' = ops + 1
          /\ last' = [Idle EXCEPT !.op = "upgrade", !.repo_id = ReplayRepo,
                                  !.outcome = UpgradeOutcome(r),
                                  !.latest = MaxTime,
                                  !.asset = meta[MetaFile(ReplayRepo)].asset_url]
          /\ UNCHANGED <<inp, out>>

NextReplay == InstallAsk \/ UpgradeReplay

SpecReplay == InitReplay /\ [][NextReplay]_vars

\* C12: the upgrade that replays the stored parameters selects the asset the
\* install selected, with no operator input, also when the install resolved
\* it at the asset_pattern prompt: it never reaches the prompt, and the new
\* record names the same asset.
C12_ReplaySelectsSameAsset ==
    last.op = "upgrade" =>
        /\ last.outcome # "no_answer"
        /\ meta[LastFile].kind = "record"
        /\ meta[LastFile].asset_url = last.asset

----------------------------------------------------------------------------
(* SpecRecords: installs and uninstalls of repositories whose identities     *)
(* hold an underscore.  The tokens of an owner or a name are here the pieces *)
(* between its underscores, so MetaFile joins them the way                   *)
(* repo_id.replace('/', '_') does.                                           *)

\* o/x_a, o_x/a and o/b
RecordRepos ==
    {[owner |-> <<"o">>, name |-> <<"x", "a">>],
     [owner |-> <<"o", "x">>, name |-> <<"a">>],
     [owner |-> <<"o">>, name |-> <<"b">>]}

RecordFiles == {MetaFile(r) : r \in RecordRepos}

\* what the only asset of the latest release serves
RecordContents == {TarV1, TarV2, Binary}

InitRecords ==
    /\ meta = [f \in RecordFiles |-> NoRecord]
    /\ bin = [n \in BinNames \cup {r.name : r \in RecordRepos} |-> NoEntry]
    /\ cache = [n \in CacheNames |-> NoFile]
    /\ data = [n \in DataNames |-> NoEntry]
    /\ last = Idle
    /\ ops = 0
    /\ ComponentIdle

\* install --confirm of the latest release
InstallRecord ==
    /\ ops < MaxOps
    /\ \E repo_id \in RecordRepos, content \in RecordContents :
          \E r \in {install(FS,
                            [repo_id |-> repo_id, tag |-> LatestTag,
                             url |-> NoUrl, asset_pattern |-> AnyPattern,
                             bin_pattern |-> AnyPattern,
                             symlink_alias |-> NoAlias, confirm |-> TRUE,
                             force_download |-> TRUE, download_only |-> FALSE],
                            [release |-> Release(1, {A_tgz}),
                             content |-> content, proceed |-> TRUE,
                             patterns |-> <<>>])} :
              /\ Ran(r.fs)
              /\ last' = [Idle EXCEPT !.op = "install", !.repo_id = repo_id,
                                      !.outcome = r.outcome]

\* uninstall --confirm
UninstallRecord ==
    /\ ops < MaxOps
    /\ \E repo_id \in RecordRepos :
          \E r \in {uninstall(FS, repo_id, TRUE, TRUE)} :
              /\ Ran(r.fs)
              /\ last' = [Idle EXCEPT !.op = "uninstall", !.repo_id = repo_id,
                                      !.outcome = r.outcome]

NextRecords == InstallRecord \/ UninstallRecord

SpecRecords == InitRecords /\ [][NextRecords]_vars

\* C13: an install or uninstall of one identity never overwrites or deletes
\* the record of another identity: the record an identity has before the
\* command is the record it has after it.
C13_RecordsOfOthersUntouched ==
    [][\A repo_id \in RecordRepos :
          (/\ repo_id # last'.repo_id
           /\ meta[MetaFile(repo_id)].kind = "record"
           /\ meta[MetaFile(repo_id)].repo_id = repo_id)
          => meta'[MetaFile(repo_id)] = meta[MetaFile(repo_id)]]_vars

----------------------------------------------------------------------------
(* SpecStartup: what the module does when it is loaded, before any command.
   `cfg = Config()` runs first and SYS() runs at the end of the module; a
   platform string is a sequence of characters, a regular expression a set
   of alternatives, each a sequence of character classes, some optional,
   with or without a closing `$`. *)

\* a literal, a character class and an optional character class
Lit(chars) == [i \in DOMAIN chars |-> [chars |-> {chars[i]}, opt |-> FALSE]]
Cls(chars) == <<[chars |-> chars, opt |-> FALSE]>>
Opt(chars) == <<[chars |-> chars, opt |-> TRUE]>>
Alt(items, end) == [items |-> items, end |-> end]

\* the class [b-z]
LettersBtoZ ==
    {"b", "c", "d", "e", "f", "g", "h", "i", "j", "k", "l", "m", "n", "o",
     "p", "q", "r", "s", "t", "u", "v", "w", "x", "y", "z"}

\* the items from the k-th on match string at position i
RECURSIVE MatchItems(_, _, _, _)
MatchItems(alt, k, string, i) ==
    IF k > Len(alt.items)
    THEN alt.end => i > Len(string)
    ELSE \/ /\ i <= Len(string)
            /\ string[i] \in alt.items[k].chars
            /\ MatchItems(alt, k + 1, string, i + 1)
         \/ /\ alt.items[k].opt
            /\ MatchItems(alt, k + 1, string, i)

\* re.match: the pattern matches at the beginning of the string
re_match(pattern, string) == \E alt \in pattern : MatchItems(alt, 1, string, 1)

Families ==
    {"x86", "x86_64", "arm8_32", "arm8_64", "arm7", "ppc_32", "ppc_64",
     "sparc_32", "sparc_64", "s390x", "mips_32", "mips_64", "riscv_32",
     "riscv_64", "loong_32", "loong_64"}

arch_pattern_dict ==
    [arch \in Families |->
      CASE
        \* x86$|x86_32|[i]?[3-6]86$|i86pc|ia[-_]?32|bepc
           arch = "x86" ->
             {Alt(Lit(<<"x", "8", "6">>), TRUE),
              Alt(Lit(<<"x", "8", "6", "_", "3", "2">>), FALSE),
              Alt(Opt({"i"}) \o Cls({"3", "4", "5", "6"}) \o Lit(<<"8", "6">>), TRUE),
              Alt(Lit(<<"i", "8", "6", "p", "c">>), FALSE),
              Alt(Lit(<<"i", "a">>) \o Opt({"-", "_"}) \o Lit(<<"3", "2">>), FALSE),
              Alt(Lit(<<"b", "e", "p", "c">>), FALSE)}
        \* amd64|x64|x86[-_]?64|i686[-_]?64|ia[-_]?64
        [] arch = "x86_64" ->
             {Alt(Lit(<<"a", "m", "d", "6", "4">>), FALSE),
              Alt(Lit(<<"x", "6", "4">>), FALSE),
              Alt(Lit(<<"x", "8", "6">>) \o Opt({"-", "_"}) \o Lit(<<"6", "4">>), FALSE),
              Alt(Lit(<<"i", "6", "8", "6">>) \o Opt({"-", "_"}) \o Lit(<<"6", "4">>), FALSE),
              Alt(Lit(<<"i", "a">>) \o Opt({"-", "_"}) \o Lit(<<"6", "4">>), FALSE)}
        \* armv8[-_]?[b-z]?
        [] arch = "arm8_32" ->
             {Alt(Lit(<<"a", "r", "m", "v", "8">>) \o Opt({"-", "_"})
                    \o Opt(LettersBtoZ), FALSE)}
        \* aarch64|arm64|armv8[-_]?a
        [] arch = "arm8_64" ->
             {Alt(Lit(<<"a", "a", "r", "c", "h", "6", "4">>), FALSE),
              Alt(Lit(<<"a", "r", "m", "6", "4">>), FALSE),
              Alt(Lit(<<"a", "r", "m", "v", "8">>) \o Opt({"-", "_"}) \o Lit(<<"a">>), FALSE)}
        \* arm$|armv[6-7]
        [] arch = "arm7" ->
             {Alt(Lit(<<"a", "r", "m">>), TRUE),
              Alt(Lit(<<"a", "r", "m", "v">>) \o Cls({"6", "7"}), FALSE)}
        \* ppc$|ppc32|prep|pmac|powermac
        [] arch = "ppc_32" ->
             {Alt(Lit(<<"p", "p", "c">>), TRUE),
              Alt(Lit(<<"p", "p", "c", "3", "2">>), FALSE),
              Alt(Lit(<<"p", "r", "e", "p">>), FALSE),
              Alt(Lit(<<"p", "m", "a", "c">>), FALSE),
              Alt(Lit(<<"p", "o", "w", "e", "r", "m", "a", "c">>), FALSE)}
        \* powerpc|ppc64
        [] arch = "ppc_64" ->
             {Alt(Lit(<<"p", "o", "w", "e", "r", "p", "c">>), FALSE),
              Alt(Lit(<<"p", "p", "c", "6", "4">>), FALSE)}
        \* sparc$|sparc32
        [] arch = "sparc_32" ->
             {Alt(Lit(<<"s", "p", "a", "r", "c">>), TRUE),
              Alt(Lit(<<"s", "p", "a", "r", "c", "3", "2">>), FALSE)}
        \* sparc64|sun4[u-v]
        [] arch = "sparc_64" ->
             {Alt(Lit(<<"s", "p", "a", "r", "c", "6", "4">>), FALSE),
              Alt(Lit(<<"s", "u", "n", "4">>) \o Cls({"u", "v"}), FALSE)}
        \* s390[x]?
        [] arch = "s390x" ->
             {Alt(Lit(<<"s", "3", "9", "0">>) \o Opt({"x"}), FALSE)}
        \* mips$
        [] arch = "mips_32" -> {Alt(Lit(<<"m", "i", "p", "s">>), TRUE)}
        \* mips64
        [] arch = "mips_64" ->
             {Alt(Lit(<<"m", "i", "p", "s", "6", "4">>), FALSE)}
        \* riscv$|riscv32
        [] arch = "riscv_32" ->
             {Alt(Lit(<<"r", "i", "s", "c", "v">>), TRUE),
              Alt(Lit(<<"r", "i", "s", "c", "v", "3", "2">>), FALSE)}
        \* riscv64
        [] arch = "riscv_64" ->
             {Alt(Lit(<<"r", "i", "s", "c", "v", "6", "4">>), FALSE)}
        \* loongarch32
        [] arch = "loong_32" ->
             {Alt(Lit(<<"l", "o", "o", "n", "g", "a", "r", "c", "h",
                       "3", "2">>), FALSE)}
        \* loongarch64
        [] arch = "loong_64" -> {Alt(Lit(<<"l", "o", "o", "n", "g", "a", "r", "c", "h", "6", "4">>), FALSE)}]

OSNames ==
    {"android", "darwin", "freebsd", "illumos", "linux", "netbsd", "openbsd",
     "plan9", "solaris", "windows", "win32"}

os_pattern_dict ==
    [os \in OSNames |->
      CASE os = "darwin" -> "darwin|mac[.]?os|osx"
        [] os \in {"windows", "win32"} -> "win|windows"
        [] OTHER -> os]

\* the families whose pattern matches the platform string
MatchingFamilies(platform) ==
    {arch \in Families : re_match(arch_pattern_dict[arch], platform)}

\* a fingerprint that gives up only when no family matches
ArchUnrecognizedNone(arch) == arch = {}

\* `if len(arch) != 1: raise ValueError`
ArchUnrecognized(arch) == Cardinality(arch) # 1

\* SYS.__post_init__: the patterns, or the exception it raises
SYS_post_init(os, platform) ==
    LET arch == MatchingFamilies(platform)
    IN  IF os \notin OSNames
        THEN [raised |-> "KeyError", os_pattern |-> None,
              arch_pattern |-> None]
        ELSE IF ArchUnrecognized(arch)
        THEN [raised |-> "ValueError", os_pattern |-> None,
              arch_pattern |-> None]
        ELSE [raised |-> "none", os_pattern |-> os_pattern_dict[os],
              arch_pattern |-> arch_pattern_dict[CHOOSE a \in arch : TRUE]]

\* what platform.system().lower() gives: names of the table and others
SystemNames == OSNames \cup {"java", "cygwin_nt-10.0", ""}

\* what platform.processor() or platform.machine() gives, in lowercase
PlatformStrings ==
    {<<"x", "8", "6", "_", "6", "4">>,
     <<"a", "m", "d", "6", "4">>,
     <<"x", "6", "4">>,
     <<"i", "3", "8", "6">>,
     <<"i", "6", "8", "6">>,
     <<"x", "8", "6">>,
     <<"i", "a", "6", "4">>,
     <<"a", "a", "r", "c", "h", "6", "4">>,
     <<"a", "r", "m", "6", "4">>,
     <<"a", "r", "m">>,
     <<"a", "r", "m", "v", "7", "l">>,
     <<"a", "r", "m", "v", "8">>,
     <<"a", "r", "m", "v", "8", "l">>,
     <<"a", "r", "m", "v", "8", "a">>,
     <<"a", "r", "m", "v", "8", "-", "a">>,
     <<"p", "p", "c">>,
     <<"p", "p", "c", "6", "4", "l", "e">>,
     <<"p", "o", "w", "e", "r", "p", "c">>,
     <<"s", "p", "a", "r", "c", "6", "4">>,
     <<"s", "3", "9", "0", "x">>,
     <<"m", "i", "p", "s">>,
     <<"m", "i", "p", "s", "6", "4">>,
     <<"r", "i", "s", "c", "v", "6", "4">>,
     <<"l", "o", "o", "n", "g", "a", "r", "c", "h", "6", "4">>,
     <<>>,
     <<"u", "n", "k", "n", "o", "w", "n">>,
     <<"a", "t", "h", "l", "o", "n">>}

\* the metadata directory and the config file as the program finds them
ConfigStates ==
    {[metadata_dir |-> FALSE, config |-> FALSE],
     [metadata_dir |-> TRUE, config |-> FALSE],
     [metadata_dir |-> TRUE, config |-> TRUE]}

InitStartup ==
    /\ LifecycleIdle
    /\ inp \in [os : SystemNames, platform : PlatformStrings,
                found : ConfigStates]
    /\ out = [pc |-> "import", metadata_dir |-> inp.found.metadata_dir,
              config |-> inp.found.config, requests |-> 0,
              raised |-> "none", os_pattern |-> None, arch_pattern |-> None]

\* `cfg = Config()`: read the config file if it exists, else make the
\* metadata directory and write the file
LoadConfig ==
    /\ out.pc = "import"
    /\ out' = IF out.config
              THEN [out EXCEPT !.pc = "configured"]
              ELSE [out EXCEPT !.pc = "configured", !.metadata_dir = TRUE,
                               !.config = TRUE]
    /\ UNCHANGED <<meta, bin, cache, data, last, ops, inp>>

\* `ARCH_PATTERN = SYS().arch_pattern` and `OS_PATTERN = SYS().os_pattern`
Fingerprint ==
    /\ out.pc = "configured"
    /\ \E r \in {SYS_post_init(inp.os, inp.platform)} :
          out' = [out EXCEPT
                    !.pc = IF r.raised = "none" THEN "ready" ELSE "aborted",
                    !.raised = r.raised,
                    !.os_pattern = r.os_pattern,
                    !.arch_pattern = r.arch_pattern]
    /\ UNCHANGED <<meta, bin, cache, data, last, ops, inp>>

\* `app()`: a command runs and queries the release API
RunCommand ==
    /\ out.pc = "ready"
    /\ out' = [out EXCEPT !.pc = "running", !.requests = 1]
    /\ UNCHANGED <<meta, bin, cache, data, last, ops, inp>>

NextStartup == LoadConfig \/ Fingerprint \/ RunCommand

SpecStartup == InitStartup /\ [][NextStartup]_vars

\* C15: a configuration error ends the program before any network request
\* and before any change to the file system: the metadata directory and the
\* config file are as the program found them.
C15_ConfigErrorBeforeAnyEffect ==
    out.pc = "aborted"
        => /\ out.requests = 0
           /\ out.metadata_dir = inp.found.metadata_dir
           /\ out.config = inp.found.config

\* C16: fingerprinting yields an architecture pattern only when the OS name
\* is in the table and exactly one family matches the platform string, and
\* then it is that family's pattern; an OS name outside the table, no
\* matching family or two matching families end the program with an error.
C16_ExactlyOneFamily ==
    out.pc \in {"ready", "running", "aborted"}
        => LET arch == MatchingFamilies(inp.platform)
               one == inp.os \in OSNames /\ Cardinality(arch) = 1
           IN  /\ one => /\ out.pc # "aborted"
                         /\ \A a \in arch :
                               out.arch_pattern = arch_pattern_dict[a]
                         /\ out.os_pattern = os_pattern_dict[inp.os]
               /\ ~one => /\ out.pc = "aborted"
                          /\ out.raised # "none"
                          /\ out.arch_pattern = None

\* C16 witness: a platform string that two families match has ended the
\* program with an error on a system whose OS name is in the table.
C16_Witness ==
    /\ out.pc = "aborted"
    /\ inp.os \in OSNames
    /\ Cardinality(MatchingFamilies(inp.platform)) = 2

----------------------------------------------------------------------------
(* SpecExtract: Asset.extract on archives with and without a common prefix,
   under file names whose tokens are separated by dots *)

\* tool.tar.gz, tool.tgz, data.tar.gz, star.tar and tool.linux.amd64.tar.gz
ArchiveNames ==
    {<<"tool", "tar", "gz">>, <<"tool", "tgz">>, <<"data", "tar", "gz">>,
     <<"star", "tar">>, <<"tool", "linux", "amd64", "tar", "gz">>}

\* archives whose entries share no prefix
FlatTar == [kind |-> "tar", base_dir |-> <<>>, size |-> 2, sha |-> "h6",
            files |-> {[dir |-> <<>>, name |-> <<"tool">>, x |-> TRUE],
                       [dir |-> <<>>, name |-> <<"README">>, x |-> FALSE]}]
FlatTarBin == [kind |-> "tar", base_dir |-> <<>>, size |-> 2, sha |-> "h7",
               files |-> {[dir |-> <<"bin">>, name |-> <<"tool">>, x |-> TRUE],
                          [dir |-> <<>>, name |-> <<"README">>, x |-> FALSE]}]

ArchiveContents == {TarV1, TarV2, TarDocs, FlatTar, FlatTarBin}

\* the entries of data_dir an extraction can make
ExtractRoots ==
    {c.base_dir : c \in ArchiveContents \ {FlatTar, FlatTarBin}}
        \cup {RStripTar(Stem(n)) : n \in ArchiveNames}
        \cup {Stem(n) : n \in ArchiveNames}
        \cup {<<"data">>, <<"star">>}

\* what an earlier install left in a directory of data_dir
OldDir == [kind |-> "dir",
           files |-> {[dir |-> <<>>, name |-> <<"old">>, x |-> FALSE]}]

InitExtract ==
    /\ meta = [f \in MetaFiles |-> NoRecord]
    /\ bin = [n \in BinNames |-> NoEntry]
    /\ last = Idle
    /\ ops = 0
    /\ inp \in [file_name : ArchiveNames, content : ArchiveContents]
    /\ cache = [n \in ArchiveNames |->
                    IF n = inp.file_name THEN inp.content ELSE NoFile]
    /\ \E taken \in SUBSET ExtractRoots :
          /\ Cardinality(taken) <= 1
          /\ data = [n \in ExtractRoots |->
                        IF n \in taken THEN OldDir ELSE NoEntry]
    /\ out = NotRun

RunExtract ==
    /\ ~out.done
    /\ \E r \in {extract(cache, data, inp.file_name)} :
          /\ cache' = r.cache
          /\ data' = r.data
          /\ out' = [done |-> TRUE, raised |-> r.raised, path |-> r.path]
    /\ UNCHANGED <<meta, bin, last, ops, inp>>

NextExtract == RunExtract

SpecExtract == InitExtract /\ [][NextExtract]_vars

\* the archive's base file name with a trailing `tar` token stripped
StatedFlatRoot(file_name) ==
    LET stem == Stem(file_name)
    IN  IF Len(stem) > 1 /\ Ext(stem) = "tar"
        THEN SubSeq(stem, 1, Len(stem) - 1)
        ELSE stem

\* C18: an archive whose entries share a prefix is extracted into data_dir
\* and its root is data_dir/prefix; an archive whose entries share none is
\* extracted into the directory of data_dir named as the archive's base file
\* name with the trailing `.tar` stripped and nothing else, and that is its
\* root.
C18_ExtractionRoot ==
    (out.done /\ ~out.raised) =>
        /\ out.path = IF inp.content.base_dir # <<>>
                      THEN inp.content.base_dir
                      ELSE StatedFlatRoot(inp.file_name)
        /\ data[out.path].kind = "dir"
        /\ inp.content.files \subseteq data[out.path].files

----------------------------------------------------------------------------
(* SpecDiscover: Executables.identify on every tree under one root *)

DiscoverRoot == <<"pkg">>

\* the files a tree can hold: in the root, in bin, in bin.old, in lib and in
\* lib/bin
DiscoverFiles ==
    {[dir |-> <<>>, name |-> <<"tool">>, x |-> TRUE],
     [dir |-> <<>>, name |-> <<"helper">>, x |-> TRUE],
     [dir |-> <<>>, name |-> <<"README">>, x |-> FALSE],
     [dir |-> <<"bin">>, name |-> <<"tool">>, x |-> TRUE],
     [dir |-> <<"bin">>, name |-> <<"helper">>, x |-> TRUE],
     [dir |-> <<"bin.old">>, name |-> <<"tool">>, x |-> TRUE],
     [dir |-> <<"lib">>, name |-> <<"helper">>, x |-> TRUE],
     [dir |-> <<"lib", "bin">>, name |-> <<"tool">>, x |-> TRUE]}

\* what extraction can leave at the root: a tree, a standalone executable, a
\* file that is not executable, or nothing
DiscoverEntries ==
    {[kind |-> "dir", files |-> fs] : fs \in SUBSET DiscoverFiles}
        \cup {ExeFile, ForeignFile, NoEntry}

\* '.*', 'helper' and 'tool$'
DiscoverPatterns ==
    {AnyPattern, [tok |-> "helper", end |-> FALSE],
     [tok |-> "tool", end |-> TRUE]}

InitDiscover ==
    /\ meta = [f \in MetaFiles |-> NoRecord]
    /\ bin = [n \in BinNames |-> NoEntry]
    /\ cache = [n \in CacheNames |-> NoFile]
    /\ last = Idle
    /\ ops = 0
    /\ \E e \in DiscoverEntries : data = [n \in {DiscoverRoot} |-> e]
    /\ inp \in [extracted_path : {DiscoverRoot}, bin_pattern : DiscoverPatterns]
    /\ out = NotRun

RunDiscover ==
    /\ ~out.done
    /\ out' = [done |-> TRUE,
               executables |-> Executables_identify(data, inp.extracted_path,
                                                    inp.bin_pattern)]
    /\ UNCHANGED <<meta, bin, cache, data, last, ops, inp>>

NextDiscover == RunDiscover

SpecDiscover == InitDiscover /\ [][NextDiscover]_vars

\* the executable files under the root that the pattern matches
StatedMatches ==
    IF data[inp.extracted_path].kind # "dir" THEN {}
    ELSE {FilePath(inp.extracted_path, f) : f \in
            {g \in data[inp.extracted_path].files :
                /\ g.x
                /\ Matches(inp.bin_pattern,
                           PathTokens(FilePath(inp.extracted_path, g)))}}

\* C19: a root that is an executable file is the sole result; otherwise one
\* match is returned as is, and with none or several the result is the
\* matches whose parent directory is named `bin`, else the matches directly
\* in the root, else nothing.
C19_DiscoveryOrder ==
    out.done =>
        LET in_bin == {f \in StatedMatches :
                          f.dir # <<>> /\ f.dir[Len(f.dir)] = "bin"}
            in_root == {f \in StatedMatches : f.dir = <<>>}
        IN  out.executables =
                IF isExecutableFile(data, RootPath(inp.extracted_path))
                THEN {RootPath(inp.extracted_path)}
                ELSE IF Cardinality(StatedMatches) = 1 THEN StatedMatches
                ELSE IF in_bin # {} THEN in_bin
                ELSE in_root

----------------------------------------------------------------------------
(* SpecDownload: the download of install, run after run on one cache path;
   a run can be cut short while it writes *)

DownloadName == A_tgz

\* what the url serves: two archives of the same size and a smaller one
DownloadContents == {TarV1, TarV2, TarDocs}

\* the first k bytes of a download
Partial(k) == [Truncated EXCEPT !.size = k]

NoDownload ==
    [done |-> FALSE, how |-> "none", wrote |-> FALSE, before |-> NoFile,
     content |-> NoFile, force_download |-> FALSE, download_only |-> FALSE]

InitDownload ==
    /\ meta = [f \in MetaFiles |-> NoRecord]
    /\ bin = [n \in BinNames |-> NoEntry]
    /\ data = [n \in DataNames |-> NoEntry]
    /\ cache = [n \in {DownloadName} |-> NoFile]
    /\ last = Idle
    /\ ops = 0
    /\ inp = [none |-> TRUE]
    /\ out = NoDownload

\* `Asset(file_path).download(url, force=force_download or download_only)`
\* runs to its end
Download ==
    /\ ops < MaxOps
    /\ \E content \in DownloadContents, force_download, download_only \in BOOLEAN :
          /\ cache' = download(cache, DownloadName, content,
                               force_download \/ download_only)
          /\ out' = [done |-> TRUE, how |-> "complete",
                     wrote |-> ~AlreadyExists(cache, DownloadName, content,
                                              force_download \/ download_only),
                     before |-> cache[DownloadName], content |-> content,
                     force_download |-> force_download,
                     download_only |-> download_only]
    /\ ops' = ops + 1
    /\ UNCHANGED <<meta, bin, data, last, inp>>

\* the run is cut short in the write loop: the file was opened with 'wb' and
\* holds the first k bytes
DownloadInterrupted ==
    /\ ops < MaxOps
    /\ \E content \in DownloadContents, force_download, download_only \in BOOLEAN :
          /\ ~AlreadyExists(cache, DownloadName, content,
                            force_download \/ download_only)
          /\ \E k \in 0..(content.size - 1) :
                cache' = [cache EXCEPT ![DownloadName] = Partial(k)]
          /\ out' = [done |-> TRUE, how |-> "interrupted", wrote |-> TRUE,
                     before |-> cache[DownloadName], content |-> content,
                     force_download |-> force_download,
                     download_only |-> download_only]
    /\ ops' = ops + 1
    /\ UNCHANGED <<meta, bin, data, last, inp>>

NextDownload == Download \/ DownloadInterrupted

SpecDownload == InitDownload /\ [][NextDownload]_vars

\* C20: a run of the download that reaches its end leaves the file at the
\* cache path as it was, writing nothing, if and only if the file exists, has
\* the remote size and neither force_download nor download_only is set; in
\* every other case the file then holds the full remote content, whatever
\* was there, a truncated file included.
C20_ReuseOnlyOnEqualSize ==
    [][out'.how = "complete" =>
        LET reuse == /\ cache[DownloadName].kind # "none"
                     /\ cache[DownloadName].size = out'.content.size
                     /\ ~out'.force_download
                     /\ ~out'.download_only
        IN  /\ out'.wrote <=> ~reuse
            /\ reuse => cache'[DownloadName] = cache[DownloadName]
            /\ ~reuse => cache'[DownloadName] = out'.content]_vars

\* C20 witness: a run that reached its end has overwritten the truncated
\* file an interrupted run left, with neither flag set.
C20_Witness ==
    /\ out.how = "complete"
    /\ out.wrote
    /\ out.before.kind = "truncated"
    /\ ~out.force_download /\ ~out.download_only
    /\ cache[DownloadName] = out.content

====
